---- MODULE Spec2Model ----
(***************************************************************************)
(* Command palette of src/components/pallette.tsx.                         *)
(*                                                                         *)
(* Palette owns `open`, toggled by the cmd+k / ctrl+k hotkey, and the      *)
(* scroll lock on document.body.  While shown it renders CommandContainer, *)
(* which owns `predicate` (the query) and `selected`, derives              *)
(* `filteredItems`, and registers the document click listener of           *)
(* useOutsideClick.                                                        *)
(*                                                                         *)
(* A state of the model is one committed render.  An effect that only      *)
(* touches the document (scroll lock, click listener) is part of the       *)
(* commit that schedules it.  The effect of lines 95-97 calls setSelected, *)
(* which takes a further render: the render in which filteredItems changed *)
(* is committed with the previous `selected`, and effectPending marks it.  *)
(* Handlers are closures of the committed render, so they read its values. *)
(*                                                                         *)
(* Strings are sequences of characters; toLowerCase and includes are       *)
(* modelled character by character.                                        *)
(***************************************************************************)
EXTENDS Integers, Sequences, FiniteSets, TLC

\* ------------------------------------------------------------------ bounds
\* longest query typed into the search input
MaxQueryLen == 2
\* longest item list the host passes to Palette
MaxItems == 3

\* ------------------------------------------------------------ value domains
Chars == {"a", "A", "b"}

Undefined == "undefined"

Keys == {"k1", "k2", "k3"}

\* CommandItem records {key, name}; keys are unique (spec section 6)
NameOf(k) ==
    CASE k = "k1" -> <<"A", "a">>
      [] k = "k2" -> <<"A", "b">>
      [] OTHER    -> <<"b", "b">>

Item(k) == [key |-> k, name |-> NameOf(k)]

StringsUpTo(n) == UNION {[1..m -> Chars] : m \in 0..n}

Queries == StringsUpTo(MaxQueryLen)

\* item lists with unique keys, at most MaxItems long
ItemLists ==
    {[i \in 1..Len(ks) |-> Item(ks[i])] :
        ks \in {s \in UNION {[1..m -> Keys] : m \in 0..MaxItems} :
                   \A i, j \in 1..Len(s) : i # j => s[i] # s[j]}}

\* ------------------------------------------------------- string primitives
\* String.prototype.toLowerCase, per character
LowerChar(c) == IF c = "A" THEN "a" ELSE c

ToLowerCase(s) == [i \in 1..Len(s) |-> LowerChar(s[i])]

\* String.prototype.includes
Includes(s, t) ==
    \E off \in 0..(Len(s) - Len(t)) :
        \A j \in 1..Len(t) : s[off + j] = t[j]

\* -------------------------------------------------------- CommandContainer
\* items[0]?.key, filteredItems[0]?.key
FirstKey(list) == IF Len(list) > 0 THEN list[1].key ELSE Undefined

\* itemMap[key]: the item registered under key, undefined for a missing key
ItemMapGet(its, k) ==
    IF \E i \in 1..Len(its) : its[i].key = k
    THEN LET i == CHOOSE i \in 1..Len(its) : its[i].key = k IN <<its[i]>>
    ELSE <<>>

FilterNoPredicateLower(its, pred) ==
    IF Len(pred) <= 0
    THEN its
    ELSE SelectSeq(its, LAMBDA item : Includes(ToLowerCase(item.name), pred))

FilterSkipsFirstItem(its, pred) ==
    IF Len(pred) <= 0
    THEN its
    ELSE SelectSeq(SubSeq(its, 2, Len(its)), LAMBDA item :
             Includes(ToLowerCase(item.name), ToLowerCase(pred)))

\* useMemo of lines 64-70
FilteredItems(its, pred) ==
    IF Len(pred) <= 0
    THEN its
    ELSE SelectSeq(its, LAMBDA item :
             Includes(ToLowerCase(item.name), ToLowerCase(pred)))

\* Array.prototype.indexOf, 0-based, -1 when absent; `boxed` is <<item>> or
\* <<>> for undefined
IndexOf(list, boxed) ==
    IF boxed # <<>> /\ \E i \in 1..Len(list) : list[i] = boxed[1]
    THEN (CHOOSE i \in 1..Len(list) :
             list[i] = boxed[1] /\ \A j \in 1..(i - 1) : list[j] # boxed[1]) - 1
    ELSE -1

\* list[i]?.key with a 0-based index
KeyAt(list, i) == IF i \in 0..(Len(list) - 1) THEN list[i + 1].key ELSE Undefined

\* a ?? b
Coalesce(a, b) == IF a # Undefined THEN a ELSE b

\* line 105
SelectedIndex(list, its, sel) ==
    IF sel # Undefined THEN IndexOf(list, ItemMapGet(its, sel)) ELSE 0

MoveFocusNoWrap(list, its, sel, key) ==
    IF Len(list) <= 0
    THEN sel
    ELSE LET selectedIndex == SelectedIndex(list, its, sel) IN
         CASE key = "ArrowDown" ->
                  KeyAt(list, IF selectedIndex + 1 < Len(list)
                              THEN selectedIndex + 1 ELSE selectedIndex)
           [] key = "ArrowUp" ->
                  Coalesce(KeyAt(list, selectedIndex - 1), KeyAt(list, 0))
           [] OTHER -> sel

MoveFocusAnyKeyMoves(list, its, sel, key) ==
    IF Len(list) <= 0
    THEN sel
    ELSE LET selectedIndex == SelectedIndex(list, its, sel) IN
         CASE key = "ArrowUp" ->
                  Coalesce(KeyAt(list, selectedIndex - 1),
                           KeyAt(list, Len(list) - 1))
           [] OTHER -> KeyAt(list, (selectedIndex + 1) % Len(list))

\* moveFocus, lines 99-122: the value of `selected` after the key press
MoveFocus(list, its, sel, key) ==
    IF Len(list) <= 0
    THEN sel
    ELSE LET selectedIndex == SelectedIndex(list, its, sel) IN
         CASE key = "ArrowDown" ->
                  KeyAt(list, (selectedIndex + 1) % Len(list))
           [] key = "ArrowUp" ->
                  Coalesce(KeyAt(list, selectedIndex - 1),
                           KeyAt(list, Len(list) - 1))
           [] OTHER -> sel

NoReport == [kind |-> "none", name |-> <<>>]

\* acceptCommand, lines 75-81: what the call reports; command.name on an
\* undefined command throws
AcceptCommand(its, sel) ==
    IF sel # Undefined
    THEN LET command == ItemMapGet(its, sel) IN
         IF command # <<>>
         THEN [kind |-> "alert", name |-> command[1].name]
         ELSE [kind |-> "TypeError", name |-> <<>>]
    ELSE NoReport

RecomputedSelectionKept(list, sel) == sel

RecomputedSelectionSticky(list, sel) ==
    IF \E i \in 1..Len(list) : list[i].key = sel THEN sel ELSE FirstKey(list)

\* the effect of lines 95-97: setSelected(filteredItems[0]?.key)
RecomputedSelection(list, sel) == FirstKey(list)

\* ------------------------------------------------------------------ Palette
EnableOnTagsNone == {}

\* enableOnTags of the hotkeys, lines 17, 84 and 88
EnableOnTags == {"INPUT"}

ToggledAlwaysOpens(v) == TRUE

\* the updater of line 14: setOpen(v => !v)
Toggled(v) == ~v

ScrollLockInverted(o) == IF o THEN "auto" ELSE "hidden"

\* the effect of lines 21-23
ScrollLock(o) == IF o THEN "hidden" ELSE "auto"

CloseKeepsOpen(o) == o

\* the close callback of lines 45-47: setOpen(false)
Close(o) == FALSE

\* --------------------------------------------------------- useOutsideClick
ReRegisterNoCleanup(n) == n + 1

\* the effect of lines 221-237 re-run for a new callback: cleanup of the
\* previous run removes its handler, then the new handler is added
ReRegister(n) == (n - 1) + 1

\* how many of the registered handlers call the callback (lines 222-230)
HandlerCalls(n, containerSet, targetInside) ==
    IF containerSet /\ ~targetInside THEN n ELSE 0

\* ---------------------------------------------------------------- the state
VARIABLES
    paletteMounted,  \* the host has Palette mounted
    items,           \* Palette's items prop
    open,            \* Palette: useState(false), line 8
    overflowY,       \* document.body.style.overflowY
    mounted,         \* CommandContainer is mounted (Transition shows or leaves)
    predicate,       \* CommandContainer: useState(''), line 54
    selected,        \* CommandContainer: useState(items[0]?.key), line 55
    filteredItems,   \* the memo of lines 64-70 in the committed render
    effectPending,   \* the effect of lines 95-97 has a setSelected to deliver
    inputFocused,    \* the search input has the focus (lines 91-93)
    clickListeners,  \* document click handlers registered by useOutsideClick
    event,           \* the event handled last
    reported,        \* what acceptCommand reported in that event
    closeCalls,      \* how often the close callback ran in that event
    prevSelected,    \* `selected` before that event
    prevOpen         \* `open` before that event

vars == <<paletteMounted, items, open, overflowY, mounted, predicate, selected,
          filteredItems, effectPending, inputFocused, clickListeners, event, reported,
          closeCalls, prevSelected, prevOpen>>

containerVars == <<mounted, predicate, selected, filteredItems, effectPending>>

\* a key press reaches a hotkey handler unless it comes from an input whose
\* tag the handler's enableOnTags does not list
HotkeyFires(tags) == inputFocused => "INPUT" \in tags

KeysOf(list) == {list[i].key : i \in 1..Len(list)}

\* the host mounts Palette: open is false, the scroll effect runs once
Init ==
    /\ paletteMounted = TRUE
    /\ items \in ItemLists
    /\ open = FALSE
    /\ overflowY = ScrollLock(FALSE)
    /\ mounted = FALSE
    /\ predicate = <<>>
    /\ selected = Undefined
    /\ filteredItems = <<>>
    /\ effectPending = FALSE
    /\ inputFocused = FALSE
    /\ clickListeners = 0
    /\ event = "mount"
    /\ reported = NoReport
    /\ closeCalls = 0
    /\ prevSelected = Undefined
    /\ prevOpen = FALSE

\* what the state was before this event
Remember == prevSelected' = selected /\ prevOpen' = open

\* no acceptCommand and no close call in this event
Quiet == reported' = NoReport /\ closeCalls' = 0

\* Palette renders with `o` for open: the scroll effect runs when open changed,
\* and a mounted container receives a new close callback, which re-runs the
\* effect of useOutsideClick
PaletteRender(o) ==
    /\ open' = o
    /\ overflowY' = IF o # open THEN ScrollLock(o) ELSE overflowY
    /\ clickListeners' = IF mounted THEN ReRegister(clickListeners)
                         ELSE clickListeners

\* setOpen(o): a render follows only when the state changes
SetOpen(o) ==
    IF o # open
    THEN PaletteRender(o)
    ELSE UNCHANGED <<open, overflowY, clickListeners>>

\* ------------------------------------------------------------------ the host
HostMount(L) ==
    /\ ~paletteMounted
    /\ paletteMounted' = TRUE
    /\ items' = L
    /\ open' = FALSE
    /\ overflowY' = ScrollLock(FALSE)
    /\ event' = "mount"
    /\ Remember
    /\ Quiet
    /\ UNCHANGED <<containerVars, inputFocused, clickListeners>>

\* the host renders Palette again with the same items, in the same array
\* (fresh = FALSE) or in another array object (fresh = TRUE): the memos and the
\* effect of lines 95-97 depend on the array's identity
HostRerender(fresh) ==
    /\ paletteMounted
    /\ PaletteRender(open)
    /\ IF mounted /\ fresh
       THEN /\ filteredItems' = FilteredItems(items, predicate)
            /\ effectPending' = TRUE
       ELSE UNCHANGED <<filteredItems, effectPending>>
    /\ event' = "rerender"
    /\ Remember
    /\ Quiet
    /\ UNCHANGED <<paletteMounted, items, mounted, predicate, selected,
                   inputFocused>>

\* the host renders Palette with another item list: the memos of lines 57-70
\* are recomputed in that render, and the effect of lines 95-97 is scheduled;
\* predicate and selected are state and keep their values
HostSetItems(L) ==
    /\ paletteMounted
    /\ L # items
    /\ items' = L
    /\ PaletteRender(open)
    /\ IF mounted
       THEN /\ filteredItems' = FilteredItems(L, predicate)
            /\ effectPending' = TRUE
       ELSE UNCHANGED <<filteredItems, effectPending>>
    /\ event' = "items"
    /\ Remember
    /\ Quiet
    /\ UNCHANGED <<paletteMounted, mounted, predicate, selected, inputFocused>>

\* the host unmounts Palette: the cleanups of the mounted effects run; the
\* scroll effect of lines 21-23 returns no cleanup
HostUnmount ==
    /\ paletteMounted
    /\ paletteMounted' = FALSE
    /\ items' = <<>>
    /\ open' = FALSE
    /\ mounted' = FALSE
    /\ predicate' = <<>>
    /\ selected' = Undefined
    /\ filteredItems' = <<>>
    /\ effectPending' = FALSE
    /\ inputFocused' = FALSE
    /\ clickListeners' = IF mounted THEN clickListeners - 1 ELSE clickListeners
    /\ event' = "unmount"
    /\ Remember
    /\ Quiet
    /\ UNCHANGED overflowY

\* ------------------------------------------------------------------- Palette
\* cmd+k / ctrl+k, lines 10-19: setOpen(v => !v).  Transition mounts the
\* container when show turns true and it is not mounted; the mounted container
\* focuses its input (lines 91-93).
Toggle ==
    /\ paletteMounted
    /\ HotkeyFires(EnableOnTags)
    /\ open' = Toggled(open)
    /\ overflowY' = IF open' # open THEN ScrollLock(open') ELSE overflowY
    /\ IF open' /\ ~mounted
       THEN /\ mounted' = TRUE
            /\ predicate' = <<>>
            /\ selected' = FirstKey(items)
            /\ filteredItems' = FilteredItems(items, <<>>)
            /\ effectPending' = TRUE
            /\ inputFocused' = TRUE
            /\ clickListeners' = clickListeners + 1
       ELSE /\ clickListeners' = IF mounted THEN ReRegister(clickListeners)
                                 ELSE clickListeners
            /\ UNCHANGED <<containerVars, inputFocused>>
    /\ event' = "toggle"
    /\ Remember
    /\ Quiet
    /\ UNCHANGED <<paletteMounted, items>>

\* Transition show={false} has finished leaving: the container unmounts and
\* the cleanup of useOutsideClick removes its handler
LeaveDone ==
    /\ mounted /\ ~open
    /\ mounted' = FALSE
    /\ predicate' = <<>>
    /\ selected' = Undefined
    /\ filteredItems' = <<>>
    /\ effectPending' = FALSE
    /\ inputFocused' = FALSE
    /\ clickListeners' = clickListeners - 1
    /\ event' = "leaveDone"
    /\ Remember
    /\ Quiet
    /\ UNCHANGED <<paletteMounted, items, open, overflowY>>

\* ---------------------------------------------------------- CommandContainer
\* onInput, lines 175-177: setPredicate(value); the render recomputes the memo
SetQuery(q) ==
    /\ mounted /\ inputFocused
    /\ predicate' = q
    /\ IF q # predicate
       THEN /\ filteredItems' = FilteredItems(items, q)
            /\ effectPending' = TRUE
       ELSE UNCHANGED <<filteredItems, effectPending>>
    /\ event' = "input"
    /\ Remember
    /\ Quiet
    /\ UNCHANGED <<paletteMounted, items, open, overflowY, mounted, selected,
                   inputFocused, clickListeners>>

\* the effect of lines 95-97 delivers setSelected(filteredItems[0]?.key)
RecomputeSelection ==
    /\ mounted /\ effectPending
    /\ selected' = RecomputedSelection(filteredItems, selected)
    /\ effectPending' = FALSE
    /\ event' = "effect"
    /\ Remember
    /\ Quiet
    /\ UNCHANGED <<paletteMounted, items, open, overflowY, mounted, predicate,
                   filteredItems, inputFocused, clickListeners>>

\* onKeyDown={moveFocus}, line 178
KeyDown(key) ==
    /\ mounted /\ inputFocused
    /\ selected' = MoveFocus(filteredItems, items, selected, key)
    /\ event' = key
    /\ Remember
    /\ Quiet
    /\ UNCHANGED <<paletteMounted, items, open, overflowY, mounted, predicate,
                   filteredItems, effectPending, inputFocused, clickListeners>>

\* useHotkeys('enter', acceptCommand), lines 87-89
Enter ==
    /\ mounted
    /\ HotkeyFires(EnableOnTags)
    /\ reported' = AcceptCommand(items, selected)
    /\ closeCalls' = 0
    /\ event' = "enter"
    /\ Remember
    /\ UNCHANGED <<paletteMounted, items, open, overflowY, containerVars,
                   inputFocused, clickListeners>>

\* click={acceptCommand} on an item view, line 199; the click reaches the
\* document handlers with a target inside the container, and the input keeps
\* or loses the focus
ClickItem ==
    /\ mounted
    /\ Len(filteredItems) > 0
    /\ reported' = AcceptCommand(items, selected)
    /\ closeCalls' = HandlerCalls(clickListeners, mounted, TRUE)
    /\ IF closeCalls' > 0 THEN SetOpen(Close(open))
       ELSE UNCHANGED <<open, overflowY, clickListeners>>
    /\ inputFocused' \in {inputFocused, FALSE}
    /\ event' = "clickItem"
    /\ Remember
    /\ UNCHANGED <<paletteMounted, items, containerVars>>

\* useHotkeys('esc', close), lines 83-85
Esc ==
    /\ mounted
    /\ HotkeyFires(EnableOnTags)
    /\ closeCalls' = 1
    /\ SetOpen(Close(open))
    /\ reported' = NoReport
    /\ event' = "esc"
    /\ Remember
    /\ UNCHANGED <<paletteMounted, items, containerVars, inputFocused>>

ClickTargets == {"outside", "container", "input"}

\* a click on the document, outside the container, on the container or on its
\* input: every registered handler of lines 222-230 runs, and the focus goes
\* to the input only when the input was clicked
Click(target) ==
    /\ paletteMounted
    /\ target # "outside" => mounted
    /\ closeCalls' = HandlerCalls(clickListeners, mounted, target # "outside")
    /\ IF closeCalls' > 0 THEN SetOpen(Close(open))
       ELSE UNCHANGED <<open, overflowY, clickListeners>>
    /\ inputFocused' = (target = "input")
    /\ reported' = NoReport
    /\ event' = IF target = "outside" THEN "clickOutside" ELSE "clickInside"
    /\ Remember
    /\ UNCHANGED <<paletteMounted, items, containerVars>>

HandledKeys == {"ArrowDown", "ArrowUp", "Tab"}

Next ==
    \/ \E L \in ItemLists : HostMount(L)
    \/ \E fresh \in BOOLEAN : HostRerender(fresh)
    \/ HostUnmount
    \/ Toggle
    \/ LeaveDone
    \/ \E q \in Queries : SetQuery(q)
    \/ RecomputeSelection
    \/ \E key \in HandledKeys : KeyDown(key)
    \/ Enter
    \/ ClickItem
    \/ Esc
    \/ \E target \in ClickTargets : Click(target)

Spec == Init /\ [][Next]_vars

\* the palette under a host that also replaces the item list
NextItems ==
    \/ Next
    \/ \E L \in ItemLists : HostSetItems(L)

SpecItems == Init /\ [][NextItems]_vars

\* ------------------------------------------------------------ the claims
\* two characters that differ at most in letter case
SameLetter(x, y) == x = y \/ {x, y} = {"a", "A"}

\* t occurs in s as a substring when letter case is ignored
ContainsIgnoringCase(s, t) ==
    \E off \in 0..(Len(s) - Len(t)) :
        \A j \in 1..Len(t) : SameLetter(s[off + j], t[j])

\* q and r are the same query in two letter cases
SameQueryIgnoringCase(q, r) ==
    Len(q) = Len(r) /\ \A j \in 1..Len(q) : SameLetter(q[j], r[j])

\* 1-based position of the item with key k in list
PositionOf(list, k) == CHOOSE i \in 1..Len(list) : list[i].key = k

\* sub is exactly the items of list that satisfy Keep, in list's order
IsOrderedSelection(sub, list, Keep(_)) ==
    /\ \A i \in 1..Len(sub) : \E j \in 1..Len(list) : list[j] = sub[i]
    /\ KeysOf(sub) = {list[j].key : j \in {n \in 1..Len(list) : Keep(list[n])}}
    /\ \A i, j \in 1..Len(sub) :
           i < j => PositionOf(list, sub[i].key) < PositionOf(list, sub[j].key)

\* C1: in every state of an open palette, Selection, when present, is the key
\* of an item of the current FilteredItems, also right after a query change.
C1_SelectionInFiltered ==
    (mounted /\ open /\ selected # Undefined) => selected \in KeysOf(filteredItems)

\* C2: FilteredItems is the item list itself for the empty query, and
\* otherwise exactly the items whose name contains the query as a substring,
\* letter case ignored, in the list's order; the same query in another letter
\* case filters to the same result.
C2_FilterIsCaseInsensitiveSubsequence ==
    mounted =>
        /\ predicate = <<>> => filteredItems = items
        /\ predicate # <<>> =>
               IsOrderedSelection(filteredItems, items,
                   LAMBDA item : ContainsIgnoringCase(item.name, predicate))
        /\ \A q \in Queries :
               SameQueryIgnoringCase(q, predicate) =>
                   FilteredItems(items, q) = filteredItems

\* an upper-case query has kept one item of three
C2_Witness ==
    /\ mounted
    /\ predicate = <<"A", "b">>
    /\ Len(items) = 3
    /\ KeysOf(filteredItems) = {"k2"}

\* the index the claim gives Selection: its index in FilteredItems, 0 when
\* Selection is absent or not found
ClaimedIndex(list, sel) ==
    IF sel \in KeysOf(list) THEN PositionOf(list, sel) - 1 ELSE 0

\* C3: moveSelection is a no-op on an empty FilteredItems; otherwise, with i
\* the index of Selection (0 when absent or not found), next selects index
\* (i+1) mod length and previous selects index i-1, or the last element when
\* i was 0.
C3_MoveSelectionFromIndex ==
    (mounted /\ event \in {"ArrowDown", "ArrowUp"}) =>
        IF Len(filteredItems) = 0
        THEN selected = prevSelected
        ELSE LET i == ClaimedIndex(filteredItems, prevSelected) IN
             IF event = "ArrowDown"
             THEN selected = filteredItems[((i + 1) % Len(filteredItems)) + 1].key
             ELSE selected = filteredItems[IF i = 0 THEN Len(filteredItems)
                                           ELSE i].key

\* C4: a query change makes the selection recompute pending, and when it is
\* delivered Selection is the first key of the new FilteredItems (absent when
\* it is empty), whatever Selection was before.
C4_QueryChangeResetsSelection ==
    [][ /\ (mounted /\ mounted' /\ predicate' # predicate) => effectPending'
        /\ (effectPending /\ ~effectPending' /\ mounted') =>
               selected' = FirstKey(filteredItems')
      ]_vars

\* the recompute has moved Selection off an item that is still listed
C4_Witness ==
    /\ event = "effect"
    /\ predicate # <<>>
    /\ prevSelected \in KeysOf(filteredItems)
    /\ prevSelected # selected
    /\ selected = FirstKey(filteredItems)

\* C5: enter reports exactly the item whose key is Selection, an item of the
\* current FilteredItems; with Selection absent it reports nothing.
C5_AcceptReportsSelectedFilteredItem ==
    (mounted /\ event = "enter") =>
        IF selected = Undefined
        THEN reported = NoReport
        ELSE /\ selected \in KeysOf(filteredItems)
             /\ reported = [kind |-> "alert",
                            name |-> filteredItems[PositionOf(filteredItems,
                                                              selected)].name]

\* C6: after acceptSelection (enter or a click on an item) with a Selection
\* present, Visibility is false.
C6_AcceptCloses ==
    (event \in {"enter", "clickItem"} /\ reported # NoReport) => ~open

\* C7: an escape press or an outside click on an open palette sets Visibility
\* to false, whatever Query and Selection are; an open palette handles both,
\* also while the search input has the focus.
C7_EscapeAndOutsideClickClose ==
    /\ (event \in {"esc", "clickOutside"} /\ prevOpen) => ~open
    /\ open => (ENABLED Esc /\ ENABLED Click("outside") /\ clickListeners > 0)

\* escape, pressed in the focused input, has closed a palette with a query
\* typed and an item selected
C7_Witness ==
    /\ event = "esc"
    /\ prevOpen
    /\ ~open
    /\ inputFocused
    /\ predicate # <<>>
    /\ selected # Undefined

\* C8: background scroll is suppressed exactly when Visibility is true.
C8_ScrollLockedIffOpen ==
    paletteMounted => (overflowY = "hidden" <=> open)

\* an outside click has closed an open palette and scroll is restored
C8_Witness ==
    /\ event = "clickOutside"
    /\ prevOpen
    /\ ~open
    /\ overflowY = "auto"

\* C9: once the palette has closed and its container is gone, or the host has
\* unmounted Palette, the scroll lock is not held and no click listener of
\* the palette is registered.
C9_ReleasedOnEveryExit ==
    (~paletteMounted \/ (~open /\ ~mounted)) =>
        (overflowY # "hidden" /\ clickListeners = 0)

\* C10: a click outside the container of an open palette runs the close
\* callback exactly once, a click inside never runs it, also after renders
\* that replaced the callback.
C10_OutsideClickClosesOnce ==
    /\ (event = "clickOutside" /\ prevOpen) => closeCalls = 1
    /\ event \in {"clickInside", "clickItem"} => closeCalls = 0

\* an outside click on an open palette has run the callback once
C10_Witness ==
    /\ event = "clickOutside"
    /\ prevOpen
    /\ ~open
    /\ closeCalls = 1

\* C11: each press of the global hotkey negates Visibility, from the closed
\* and from the open state, and is handled also while the search input has
\* the focus; a second press right after the first restores Visibility.
C11_HotkeyNegatesVisibility ==
    /\ [](paletteMounted => ENABLED Toggle)
    /\ [][ event' = "toggle" =>
              /\ open' = ~open
              /\ event = "toggle" => open' = prevOpen
         ]_vars

\* the hotkey, pressed in the focused input, has closed an open palette
C11_Witness ==
    /\ event = "toggle"
    /\ prevOpen
    /\ ~open
    /\ inputFocused

\* C12: whatever Query and Selection were when the palette closed, when it
\* opens again Query is empty, FilteredItems is the whole source list and
\* Selection is the key of the first source item.
C12_OpensWithFreshState ==
    (event = "toggle" /\ open) =>
        /\ predicate = <<>>
        /\ filteredItems = items
        /\ selected = FirstKey(items)

\* moveSelection("next") applied n times from sel
RECURSIVE NextTimes(_, _, _, _)
NextTimes(list, its, sel, n) ==
    IF n = 0 THEN sel
    ELSE NextTimes(list, its, MoveFocus(list, its, sel, "ArrowDown"), n - 1)

\* C13: with FilteredItems non-empty and Selection in it, moveSelection("next")
\* applied length(FilteredItems) times returns Selection to its starting key.
C13_NextFullCycle ==
    (mounted /\ selected \in KeysOf(filteredItems)) =>
        NextTimes(filteredItems, items, selected, Len(filteredItems)) = selected

\* ArrowDown has wrapped from the last of three items to the first
C13_Witness ==
    /\ event = "ArrowDown"
    /\ Len(filteredItems) = 3
    /\ prevSelected = filteredItems[3].key
    /\ selected = filteredItems[1].key

\* C14: Query is the empty string whenever the source item list given to the
\* container has changed.
C14_ItemsChangeResetsQuery ==
    (mounted /\ event = "items") => predicate = <<>>

\* C14, amended: a change of the source item list keeps Query; FilteredItems
\* is recomputed from the new list with the unchanged Query, and the selection
\* recompute is scheduled.
C14_ItemsChangeKeepsQuery ==
    [][ (mounted /\ event' = "items" /\ items' # items) =>
            /\ predicate' = predicate
            /\ IF predicate = <<>>
               THEN filteredItems' = items'
               ELSE IsOrderedSelection(filteredItems', items',
                        LAMBDA item : ContainsIgnoringCase(item.name, predicate))
            /\ effectPending'
      ]_vars

\* the list has changed under a typed query that matches some of its items
C14_Witness ==
    /\ mounted
    /\ event = "items"
    /\ predicate = <<"A">>
    /\ Len(filteredItems) = 2
    /\ Len(items) = 3

\* C15: filtering FilteredItems(L, q) again by q yields FilteredItems(L, q).
C15_FilterIdempotent ==
    mounted => FilteredItems(filteredItems, predicate) = filteredItems

\* a typed query has kept some items of the list and dropped others
C15_Witness ==
    /\ event = "input"
    /\ predicate = <<"b", "b">>
    /\ Len(filteredItems) = 1
    /\ Len(items) = 3

\* C16: in every settled state (the selection recompute has run), Selection
\* is absent if and only if FilteredItems is empty.
C16_SettledSelectionAbsentIffEmpty ==
    (mounted /\ ~effectPending) =>
        (selected = Undefined <=> Len(filteredItems) = 0)

\* the recompute has cleared Selection for a query that matches nothing
C16_Witness ==
    /\ event = "effect"
    /\ Len(items) > 0
    /\ Len(filteredItems) = 0
    /\ prevSelected # Undefined
    /\ selected = Undefined

\* C17: at most one document click listener is registered, and one is
\* registered exactly while the container is mounted.
C17_OneListenerWhileMounted ==
    clickListeners = IF mounted THEN 1 ELSE 0

\* the container has unmounted after a close and its listener is gone
C17_Witness ==
    /\ event = "leaveDone"
    /\ ~mounted
    /\ clickListeners = 0

\* C18: whenever acceptCommand can run with Selection present, the Selection
\* key resolves to an item of the source list through itemMap, and
\* acceptCommand does not dereference a missing item.
C18_SelectionResolves ==
    /\ (mounted /\ selected # Undefined) => ItemMapGet(items, selected) # <<>>
    /\ reported.kind # "TypeError"

\* C19: with Selection in a non-empty FilteredItems, next followed by previous
\* and previous followed by next both return Selection to its starting key.
C19_NextPreviousInverse ==
    (mounted /\ selected \in KeysOf(filteredItems)) =>
        /\ MoveFocus(filteredItems, items,
               MoveFocus(filteredItems, items, selected, "ArrowDown"),
               "ArrowUp") = selected
        /\ MoveFocus(filteredItems, items,
               MoveFocus(filteredItems, items, selected, "ArrowUp"),
               "ArrowDown") = selected

\* ArrowUp has wrapped from the first item to the last of several
C19_Witness ==
    /\ event = "ArrowUp"
    /\ Len(filteredItems) >= 2
    /\ prevSelected = filteredItems[1].key
    /\ selected = filteredItems[Len(filteredItems)].key

\* C20: a key press handled by moveFocus leaves Query, FilteredItems and
\* Visibility unchanged, a key other than ArrowDown and ArrowUp also leaves
\* Selection unchanged, and setQuery leaves Visibility unchanged.
C20_KeyAndQueryFrame ==
    [][ /\ event' \in HandledKeys =>
               /\ predicate' = predicate
               /\ filteredItems' = filteredItems
               /\ open' = open
               /\ event' \notin {"ArrowDown", "ArrowUp"} => selected' = selected
        /\ event' = "input" => open' = open
      ]_vars

\* another key was pressed in an open palette with a query typed
C20_Witness ==
    /\ event = "Tab"
    /\ open
    /\ predicate # <<>>
    /\ selected # Undefined
    /\ selected = prevSelected

====
